---------------------------- MODULE Spec2Model ----------------------------
(***************************************************************************)
(* A model of the readline terminal session (terminal.go, utils.go):       *)
(* the background reader loop (Terminal.ioloop) with its escape decoder,   *)
(* KickRead, ReadRune, Close and SleepToResume.                            *)
(***************************************************************************)
EXTENDS Integers, Sequences, FiniteSets, TLC

(***************************************************************************)
(* Key constants (utils.go).                                               *)
(***************************************************************************)
CharLineStart == 1
CharBackward == 2
CharInterrupt == 3
CharDelete == 4
CharLineEnd == 5
CharForward == 6
CharCtrlJ == 10
CharEnter == 13
CharNext == 14
CharPrev == 16
CharTranspose == 20
CharBell == 7
CharTab == 9
CharEsc == 27
RuneSpace == 32
CharO == 79
CharEscapeEx == 91
CharBackspace == 127
MetaBackward == -1
MetaForward == -2
MetaDelete == -3
MetaBackspace == -4
MetaTranspose == -5

(* Channel capacities (NewTerminal). *)
KickCap == 1
SizeCap == 1

(* Rune literals used by the decoder. *)
RuneA == 65
RuneB == 66
RuneC == 67
RuneD == 68
RuneF == 70
RuneH == 72
RuneR == 82
RuneTilde == 126
RuneSemi == 59
Rune3 == 51
RuneLowerB == 98
RuneLowerD == 100
RuneLowerF == 102

(* The digits the input may supply (unicode.IsNumber holds of them). *)
Digits == {49, Rune3}

(* Runes with no special meaning to the decoder: NUL, 'Z', 'x'. *)
PlainRunes == {0, 90, 120}

(* The runes a read of the input may return where decoding is examined. *)
Runes ==
    {CharInterrupt, CharDelete, CharCtrlJ, CharEnter, CharEsc, CharO,
     CharEscapeEx, RuneA, RuneB, RuneC, RuneD, RuneF, RuneH, RuneR,
     RuneTilde, RuneSemi, RuneLowerB} \cup Digits \cup PlainRunes

(* The runes a read may return where cursor reports are examined: ESC, '[', *)
(* the digit '1', ';', 'R' and 'x'.                                        *)
ReportRunes == {CharEsc, CharEscapeEx, 49, RuneSemi, RuneR, 120}

(* The runes a read may return where the session's life cycle is examined: *)
(* 'x', Enter, ESC, '[' and the digit '3'.                                 *)
LifeRunes == {120, CharEnter, CharEsc, CharEscapeEx, Rune3}

(***************************************************************************)
(* Bounds of the model.                                                    *)
(***************************************************************************)
MaxAttrLen == 3        \* longest attribute string the input supplies
MaxCloseCalls == 3     \* calls of Close over the life of the session
MaxKickCalls == 2      \* KickRead calls counted between two gate passes
MaxSleepCalls == 3     \* calls of SleepToResume over the life of the session
MaxOffsetCalls == 2    \* calls of GetOffset over the life of the session
MaxBufLen == 2         \* longest line the completion engine is run on

Closers == {"c1", "c2"}
Sleepers == {"s1", "s2"}

\* "no rune" (nothing received, nothing handed off): a value that is neither
\* a rune of the input nor one of the Meta keys
NoRune == -(10^6)

VARIABLES
    \* Terminal fields
    closed,            \* t.closed (0/1)
    stopClosed,        \* close(t.stopChan) has run
    kickChan,          \* number of elements buffered in t.kickChan
    outClosed,         \* close(t.outchan) has run
    wg,                \* counter of t.wg
    isReading,         \* t.isReading
    sleeping,          \* t.sleeping
    sizeChan,          \* contents of t.sizeChan (sequence of attribute strings)
    \* configuration and environment
    vimMode,           \* t.cfg.VimMode
    stdinIsCloser,     \* t.cfg.Stdin implements io.Closer
    stdinClosed,       \* the input handle has been closed
    rawMode,           \* the terminal is in raw mode
    suspended,         \* the process is stopped (SIGTSTP), not yet resumed
    \* ioloop goroutine
    rpc,               \* position of the reader
    r,                 \* local r
    attr,              \* readEscKey's buf
    isEscape, isEscapeEx, isEscapeSS3, expectNextChar,
    \* callers
    cpc, cret, cwon,   \* Close callers: position, return value, won the swap
    closeCalls,        \* number of Close calls started
    upc, got, gotOk,   \* ReadRune caller: position, result (ch, ok)
    spc,               \* SleepToResume callers: position
    det,               \* WaitForResume detector of each caller
    sleepCalls,        \* number of SleepToResume calls started
    sleepSkips,        \* number of those that returned at the guard
    \* history (observation only)
    stdinCloses, stopCloses, closeRestores,
    lastEv, gated, kickCalls, lastRead,
    refState, refAttr, refExpect, refDone, decoded, seqHandoffs,
    refPair,           \* how far the attribute read so far matches int;int
    \* Terminal.GetOffset
    offsetWaiters,     \* goroutines of GetOffset blocked on t.sizeChan
    offsetCalls,       \* number of GetOffset calls started
    offsetGot,         \* the strings handed to GetOffset's callbacks
    \* the configuration t.cfg and its mutex t.m
    cfgLock,           \* holder of t.m: "free", "set" (SetConfig), "get"
    setpc,             \* SetConfig caller: idle, locked, stored
    getpc,             \* GetConfig caller: idle, locked
    wpc,               \* Write caller: idle, writing
    \* the completion engine (opCompleter) and the line buffer before the cursor
    width, inCompleteMode, inSelectMode, candidate, candidateComments,
    candidateSource, candidateOff, candidateChoise, candidateColNum,
    opBuf,             \* o.op.buf: the runes of the line, cursor at the end
    panicked,          \* the run-time panic that ended a call, or "none"
    compEv, compKey,   \* history: what the last call did, and on which key
    provided,          \* history: the candidates the provider answered with
    \* the prefix matcher: a call of PrefixCompleter.Do and what it returned
    pcTree, pcLine, pcPos, pcDone, pcResult

termVars == <<closed, stopClosed, kickChan, outClosed, wg, isReading, sizeChan>>
envVars == <<vimMode, stdinIsCloser, stdinClosed>>
readerVars == <<rpc, r, attr, isEscape, isEscapeEx, isEscapeSS3, expectNextChar>>
closerVars == <<cpc, cret, cwon, closeCalls>>
consumerVars == <<upc, got, gotOk>>
sleepVars == <<sleeping, spc, det, sleepCalls, sleepSkips, suspended>>
closeHist == <<stdinCloses, stopCloses, closeRestores>>
gateHist == <<lastEv, gated>>
refHist == <<refState, refAttr, refExpect, refDone, decoded, seqHandoffs,
            refPair>>
offsetVars == <<offsetWaiters, offsetCalls, offsetGot>>
histVars == <<closeHist, gateHist, kickCalls, lastRead, refHist>>

\* the state of the parts of the library other than the reader, Close, ReadRune,
\* KickRead and SleepToResume
cfgVars == <<cfgLock, setpc, getpc, wpc>>
engineVars ==
    <<width, inCompleteMode, inSelectMode, candidate, candidateComments,
      candidateSource, candidateOff, candidateChoise, candidateColNum, opBuf,
      panicked>>
compVars == <<engineVars, compEv, compKey, provided>>
matchVars == <<pcTree, pcLine, pcPos, pcDone, pcResult>>
extVars == <<offsetVars, cfgVars, compVars, matchVars>>

vars == <<termVars, envVars, rawMode, readerVars, closerVars, consumerVars,
          sleepVars, histVars, extVars>>

(***************************************************************************)
(* The escape decoder's pure functions (utils.go).                         *)
(***************************************************************************)

\* unicode.IsNumber(r) || r == ';' : the runes readEscKey accumulates
IsAttrRune(x) == x = RuneSemi \/ x \in Digits

\* escapeExKey: the key of ESC [ attr typ (0: none)
escapeExKey(at, typ) ==
    CASE typ = RuneD -> CharBackward
      [] typ = RuneC -> CharForward
      [] typ = RuneA -> CharPrev
      [] typ = RuneB -> CharNext
      [] typ = RuneH -> CharLineStart
      [] typ = RuneF -> CharLineEnd
      [] typ = RuneTilde -> IF at = <<Rune3>> THEN CharDelete ELSE 0
      [] OTHER -> 0

\* escapeSS3Key: the key of ESC O attr typ (0: none)
escapeSS3Key(at, typ) ==
    CASE typ = RuneD -> CharBackward
      [] typ = RuneC -> CharForward
      [] typ = RuneA -> CharPrev
      [] typ = RuneB -> CharNext
      [] typ = RuneH -> CharLineStart
      [] typ = RuneF -> CharLineEnd
      [] OTHER -> 0

\* escapeKey: ESC x as Meta+x. ioloop takes 'O' before calling it (line 197),
\* so its case 'O', the only one that reads ahead, is never entered.
escapeKey(x) ==
    CASE x = RuneLowerB -> MetaBackward
      [] x = RuneLowerF -> MetaForward
      [] x = RuneLowerD -> MetaDelete
      [] x = CharTranspose -> MetaTranspose
      [] x = CharBackspace -> MetaBackspace
      [] OTHER -> x

\* strings.Split(attr, ";"): the first field, and what follows the first ';'
FirstSemi(s) ==
    IF \E i \in 1..Len(s) : s[i] = RuneSemi
    THEN CHOOSE i \in 1..Len(s) :
             s[i] = RuneSemi /\ \A j \in 1..(i - 1) : s[j] # RuneSemi
    ELSE 0
Field1(s) == IF FirstSemi(s) = 0 THEN s ELSE SubSeq(s, 1, FirstSemi(s) - 1)
AfterSemi(s) == SubSeq(s, FirstSemi(s) + 1, Len(s))
\* strconv.Atoi succeeds (on strings over digits and ';')
AtoiOk(s) == Len(s) > 0 /\ \A i \in 1..Len(s) : s[i] \in Digits
\* escapeKeyPair.Get2: the ok result
Get2Ok(at) ==
    /\ FirstSemi(at) # 0
    /\ AtoiOk(Field1(at))
    /\ AtoiOk(Field1(AfterSemi(at)))

\* line 247 without CharDelete
IsTerminalKey_NoDelete(k) == k \in {CharInterrupt, CharEnter, CharCtrlJ}

\* the keys after which the loop re-blocks on the gate (line 247)
IsTerminalKey(k) == k \in {CharInterrupt, CharEnter, CharCtrlJ, CharDelete}

(***************************************************************************)
(* Observation of the input: the sequence structure of the runes read so   *)
(* far (Normal / after ESC / inside ESC [ / inside ESC O), kept apart from *)
(* the loop's own flags, and what the loop decided for the last rune.      *)
(***************************************************************************)
SupportedLetters == {RuneA, RuneB, RuneC, RuneD, RuneH, RuneF}
RefAttrNext(x) == IF refAttr = "empty" /\ x = Rune3 THEN "three" ELSE "other"
\* the attribute as "two integers separated by one ';'": nothing read yet
\* (e), digits (d), digits and ';' (ds), digits ';' digits (dsd), none (bad)
RefPairNext(x) ==
    IF x = RuneSemi
    THEN (IF refPair = "d" THEN "ds" ELSE "bad")
    ELSE (CASE refPair = "e" -> "d"
            [] refPair = "ds" -> "dsd"
            [] OTHER -> refPair)
RefSupported(x) ==
    \/ x \in SupportedLetters
    \/ refState = "C" /\ x = RuneTilde /\ refAttr = "three"
RefKey(x) ==
    CASE x = RuneA -> CharPrev
      [] x = RuneB -> CharNext
      [] x = RuneC -> CharForward
      [] x = RuneD -> CharBackward
      [] x = RuneH -> CharLineStart
      [] x = RuneF -> CharLineEnd
      [] x = RuneTilde -> CharDelete

\* the input supplied rune x
RefRead(x) ==
    CASE refState = "N" /\ x = CharEsc ->
            /\ refState' = "E" /\ refAttr' = "empty" /\ refPair' = "e"
            /\ refExpect' = NoRune /\ refDone' = "none"
      [] refState = "N" /\ x # CharEsc ->
            /\ refState' = "N" /\ refAttr' = "empty" /\ refPair' = "e"
            /\ refExpect' = x /\ refDone' = "plain"
      [] refState = "E" ->
            /\ refState' = (CASE x = CharEscapeEx -> "C" [] x = CharO -> "S"
                              [] x = CharEsc -> "E" [] OTHER -> "N")
            /\ refAttr' = "empty" /\ refPair' = "e"
            /\ refExpect' = NoRune
            /\ refDone' = IF x \in {CharEscapeEx, CharO, CharEsc}
                          THEN "none" ELSE "meta"
      [] refState \in {"C", "S"} /\ IsAttrRune(x) ->
            /\ refState' = refState /\ refAttr' = RefAttrNext(x)
            /\ refPair' = RefPairNext(x)
            /\ refExpect' = NoRune /\ refDone' = "none"
      [] refState \in {"C", "S"} /\ ~IsAttrRune(x) ->
            /\ refState' = "N" /\ refAttr' = "empty" /\ refPair' = refPair
            /\ refExpect' = IF RefSupported(x) THEN RefKey(x) ELSE NoRune
            /\ refDone' = (CASE RefSupported(x) -> "supported"
                             [] refState = "C" /\ x = RuneR -> "report"
                             [] OTHER -> "unsupported")
\* a read failed: the input supplied nothing
RefNoRead == UNCHANGED <<refState, refAttr, refExpect, refDone, refPair>>
\* hand-offs counted since the current sequence began (saturating at 2)
HandoffsAfter(x, handed) ==
    LET base == IF refState = "N" THEN 0 ELSE seqHandoffs
    IN  IF handed /\ base < 2 THEN base + 1 ELSE base

(***************************************************************************)
(* Terminal.ioloop (terminal.go 121-264).  Positions of the reader:        *)
(*   spawn      the goroutine exists, wg.Add(1) not yet executed           *)
(*   top        line 158, start of an iteration                            *)
(*   gate       blocked in the select on kickChan / stopChan (160)         *)
(*   read       blocked in buf.ReadRune() (181)                            *)
(*   readEscKeyEx / readEscKeySS3   blocked in readEscKey's ReadRune (547) *)
(*   sendEsc    blocked in the VimMode select on outchan / stopChan (239)  *)
(*   deliver    blocked in the select on stopChan / outchan (256)          *)
(*   deferDone, deferClose   the deferred wg.Done() and close(outchan)     *)
(*   done       the goroutine has ended                                    *)
(***************************************************************************)
SetReader(pc, rr, at, e, ex, ss3, enc) ==
    /\ rpc' = pc /\ r' = rr /\ attr' = at
    /\ isEscape' = e /\ isEscapeEx' = ex /\ isEscapeSS3' = ss3
    /\ expectNextChar' = enc

\* what a read may return: a rune, or an error of one of the two classes
ReadResults(in) ==
    [rune : in, err : {"nil"}] \cup [rune : {0}, err : {"eintr", "other"}]
\* reads of a closed input handle fail
CanReturn(res) == stdinClosed => res.err = "other"

\* `continue` with expectNextChar = true after an escape prefix (194-201)
Prefix(ex, ss3) ==
    /\ SetReader("top", 0, <<>>, FALSE, ex, ss3, TRUE)
    /\ lastEv' = "prefix" /\ decoded' = NoRune
    /\ UNCHANGED sizeChan

\* `continue` with expectNextChar = true after a sequence with no key (220-232)
Swallow ==
    /\ SetReader("top", 0, <<>>, FALSE, FALSE, FALSE, TRUE)
    /\ lastEv' = "swallow" /\ decoded' = NoRune
    /\ UNCHANGED sizeChan

\* a cursor-position report: offer the attribute to sizeChan (209-218)
Report(at) ==
    /\ SetReader("top", 0, <<>>, FALSE, FALSE, FALSE, TRUE)
    /\ sizeChan' = IF Get2Ok(at) /\ Len(sizeChan) < SizeCap
                   THEN Append(sizeChan, at) ELSE sizeChan
    /\ lastEv' = "report" /\ decoded' = NoRune

\* the switch on the resolved key (235-261)
Switch(k) ==
    /\ IF k = CharEsc
       THEN IF vimMode
            THEN SetReader("sendEsc", k, <<>>, FALSE, FALSE, FALSE, TRUE)
                 /\ decoded' = k /\ lastEv' = lastEv
            ELSE SetReader("top", 0, <<>>, TRUE, FALSE, FALSE, TRUE)
                 /\ decoded' = NoRune /\ lastEv' = "prefix"
       ELSE SetReader("deliver", k, <<>>, FALSE, FALSE, FALSE,
                      ~IsTerminalKey(k))
            /\ decoded' = k /\ lastEv' = lastEv
    /\ UNCHANGED sizeChan

\* the end of readEscKey inside ESC [ : escapeExKey and the R report (206-223)
FinishEx(at, typ) ==
    IF typ = RuneR THEN Report(at)
    ELSE IF escapeExKey(at, typ) = 0 THEN Swallow
    ELSE Switch(escapeExKey(at, typ))

\* the end of readEscKey inside ESC O : escapeSS3Key (226-232)
FinishSS3(at, typ) ==
    IF escapeSS3Key(at, typ) = 0 THEN Swallow
    ELSE Switch(escapeSS3Key(at, typ))

\* readEscKey's loop from rune x with buffer at (539-548): it either blocks
\* in the next ReadRune or ends with typ = x
ReadEscKeyFrom(pc, at, x) ==
    IF IsAttrRune(x)
    THEN /\ SetReader(pc, 0, Append(at, x), FALSE, FALSE, FALSE, FALSE)
         /\ lastEv' = lastEv /\ decoded' = NoRune
         /\ UNCHANGED sizeChan
    ELSE IF pc = "readEscKeyEx" THEN FinishEx(at, x) ELSE FinishSS3(at, x)

\* lines 190-233 and the switch, for a rune x read without error
Decode(x) ==
    IF isEscape
    THEN IF x = CharEscapeEx THEN Prefix(TRUE, FALSE)
         ELSE IF x = CharO THEN Prefix(FALSE, TRUE)
         ELSE Switch(escapeKey(x))
    ELSE IF isEscapeEx THEN ReadEscKeyFrom("readEscKeyEx", <<>>, x)
    ELSE IF isEscapeSS3 THEN ReadEscKeyFrom("readEscKeySS3", <<>>, x)
    ELSE Switch(x)

Handed == rpc' \in {"deliver", "sendEsc"}

\* go t.ioloop() has started running: t.wg.Add(1) and bufio.NewReader (122-144)
IoloopStart ==
    /\ rpc = "spawn"
    /\ cfgLock = "free"        \* t.getStdin() locks t.m (144, 289-294)
    /\ wg' = wg + 1
    /\ rpc' = "top"
    /\ UNCHANGED <<closed, stopClosed, kickChan, outClosed, isReading, sizeChan,
                   envVars, rawMode, r, attr, isEscape, isEscapeEx,
                   isEscapeSS3, expectNextChar, closerVars, consumerVars,
                   sleepVars, histVars>>
    /\ UNCHANGED extVars

\* lines 158-159 and 167: either park at the gate or go on to read
IoloopTop ==
    /\ rpc = "top"
    /\ IF ~expectNextChar
       THEN /\ isReading' = 0 /\ rpc' = "gate"
            /\ UNCHANGED <<expectNextChar, gated>>
       ELSE /\ expectNextChar' = FALSE /\ rpc' = "read" /\ gated' = FALSE
            /\ UNCHANGED isReading
    /\ UNCHANGED <<closed, stopClosed, kickChan, outClosed, wg, sizeChan,
                   envVars, rawMode, r, attr, isEscape, isEscapeEx,
                   isEscapeSS3, closerVars, consumerVars, sleepVars,
                   closeHist, lastEv, kickCalls, lastRead, refHist>>
    /\ UNCHANGED extVars

\* case <-t.kickChan (161-162, 167)
IoloopGateKick ==
    /\ rpc = "gate"
    /\ kickChan > 0
    /\ kickChan' = kickChan - 1
    /\ isReading' = 1
    /\ expectNextChar' = FALSE
    /\ rpc' = "read"
    /\ gated' = TRUE /\ kickCalls' = 0
    /\ UNCHANGED <<closed, stopClosed, outClosed, wg, sizeChan, envVars,
                   rawMode, r, attr, isEscape, isEscapeEx, isEscapeSS3,
                   closerVars, consumerVars, sleepVars, closeHist, lastEv,
                   lastRead, refHist>>
    /\ UNCHANGED extVars

\* case <-t.stopChan: return (163-164)
IoloopGateStop ==
    /\ rpc = "gate"
    /\ stopClosed
    /\ rpc' = "deferDone"
    /\ UNCHANGED <<termVars, envVars, rawMode, r, attr, isEscape, isEscapeEx,
                   isEscapeSS3, expectNextChar, closerVars, consumerVars,
                   sleepVars, histVars>>
    /\ UNCHANGED extVars

\* the keys the gate is said to follow: Enter, Ctrl-J, Interrupt, Delete
GateKeys == {13, 10, 3, 4}
DeliveredEv(k) == IF k \in GateKeys THEN "terminal" ELSE "other"

\* r, _, err := buf.ReadRune() and the decoding of r (181-261)
IoloopRead(in) ==
    /\ rpc = "read"
    /\ \E res \in ReadResults(in) :
         /\ CanReturn(res)
         /\ lastRead' = res.err
         /\ CASE res.err = "eintr" ->
                   /\ SetReader("top", 0, attr, isEscape, isEscapeEx,
                                isEscapeSS3, TRUE)
                   /\ lastEv' = "retry"
                   /\ RefNoRead
                   /\ UNCHANGED <<decoded, seqHandoffs, sizeChan>>
              [] res.err = "other" ->
                   /\ rpc' = "deferDone"
                   /\ RefNoRead
                   /\ UNCHANGED <<r, attr, isEscape, isEscapeEx, isEscapeSS3,
                                  expectNextChar, lastEv, decoded, seqHandoffs,
                                  sizeChan>>
              [] res.err = "nil" ->
                   /\ Decode(res.rune)
                   /\ RefRead(res.rune)
                   /\ seqHandoffs' = HandoffsAfter(res.rune, Handed)
    /\ UNCHANGED <<closed, stopClosed, kickChan, outClosed, wg, isReading,
                   envVars, rawMode, closerVars, consumerVars, sleepVars,
                   closeHist, gated, kickCalls>>
    /\ UNCHANGED extVars

\* r, _, _ = reader.ReadRune() inside readEscKey: the error is dropped and
\* r is 0 when the read fails (547)
IoloopReadEscKey(in) ==
    /\ rpc \in {"readEscKeyEx", "readEscKeySS3"}
    /\ \E res \in ReadResults(in) :
         /\ CanReturn(res)
         /\ IsAttrRune(res.rune) => Len(attr) < MaxAttrLen
         /\ lastRead' = res.err
         /\ ReadEscKeyFrom(rpc, attr, res.rune)
         /\ IF res.err = "nil" THEN RefRead(res.rune) ELSE RefNoRead
         /\ seqHandoffs' = HandoffsAfter(res.rune, Handed)
    /\ UNCHANGED <<closed, stopClosed, kickChan, outClosed, wg, isReading,
                   envVars, rawMode, closerVars, consumerVars, sleepVars,
                   closeHist, gated, kickCalls>>
    /\ UNCHANGED extVars

\* case t.outchan <- r of the VimMode select, then isEscape = true (240, 246)
IoloopSendEsc ==
    /\ rpc = "sendEsc"
    /\ upc = "recv"
    /\ upc' = "idle" /\ got' = r /\ gotOk' = TRUE
    /\ SetReader("top", 0, <<>>, TRUE, FALSE, FALSE, expectNextChar)
    /\ lastEv' = DeliveredEv(r)
    /\ UNCHANGED <<termVars, envVars, rawMode, closerVars, sleepVars,
                   closeHist, gated, kickCalls, lastRead, refHist>>
    /\ UNCHANGED extVars

\* case <-t.stopChan of the VimMode select: return (242-243)
IoloopSendEscStop ==
    /\ rpc = "sendEsc"
    /\ stopClosed
    /\ rpc' = "deferDone"
    /\ UNCHANGED <<termVars, envVars, rawMode, r, attr, isEscape, isEscapeEx,
                   isEscapeSS3, expectNextChar, closerVars, consumerVars,
                   sleepVars, histVars>>
    /\ UNCHANGED extVars

\* case t.outchan <- r: the rendezvous with a caller of ReadRune (259)
IoloopDeliver ==
    /\ rpc = "deliver"
    /\ upc = "recv"
    /\ upc' = "idle" /\ got' = r /\ gotOk' = TRUE
    /\ SetReader("top", 0, <<>>, FALSE, FALSE, FALSE, expectNextChar)
    /\ lastEv' = DeliveredEv(r)
    /\ UNCHANGED <<termVars, envVars, rawMode, closerVars, sleepVars,
                   closeHist, gated, kickCalls, lastRead, refHist>>
    /\ UNCHANGED extVars

\* case <-t.stopChan: return (257-258)
IoloopDeliverStop ==
    /\ rpc = "deliver"
    /\ stopClosed
    /\ rpc' = "deferDone"
    /\ UNCHANGED <<termVars, envVars, rawMode, r, attr, isEscape, isEscapeEx,
                   isEscapeSS3, expectNextChar, closerVars, consumerVars,
                   sleepVars, histVars>>
    /\ UNCHANGED extVars

\* the deferred t.wg.Done() (124)
IoloopDeferDone ==
    /\ rpc = "deferDone"
    /\ wg' = wg - 1
    /\ rpc' = "deferClose"
    /\ UNCHANGED <<closed, stopClosed, kickChan, outClosed, isReading, sizeChan,
                   envVars, rawMode, r, attr, isEscape, isEscapeEx,
                   isEscapeSS3, expectNextChar, closerVars, consumerVars,
                   sleepVars, histVars>>
    /\ UNCHANGED extVars

\* the deferred close(t.outchan) (125)
IoloopDeferClose ==
    /\ rpc = "deferClose"
    /\ outClosed' = TRUE
    /\ rpc' = "done"
    /\ UNCHANGED <<closed, stopClosed, kickChan, wg, isReading, sizeChan,
                   envVars, rawMode, r, attr, isEscape, isEscapeEx,
                   isEscapeSS3, expectNextChar, closerVars, consumerVars,
                   sleepVars, histVars>>
    /\ UNCHANGED extVars

(***************************************************************************)
(* Terminal.ReadRune (99-105) and Terminal.KickRead (111-116).             *)
(***************************************************************************)
\* a caller enters ReadRune and blocks in <-t.outchan
ReadRuneCall ==
    /\ upc = "idle"
    /\ upc' = "recv" /\ got' = NoRune /\ gotOk' = FALSE
    /\ UNCHANGED <<termVars, envVars, rawMode, readerVars, closerVars,
                   sleepVars, histVars>>
    /\ UNCHANGED extVars

\* the receive from the closed channel: ok is false, ReadRune returns 0
ReadRuneEOF ==
    /\ upc = "recv"
    /\ outClosed
    /\ upc' = "idle" /\ got' = 0 /\ gotOk' = FALSE
    /\ UNCHANGED <<termVars, envVars, rawMode, readerVars, closerVars,
                   sleepVars, histVars>>
    /\ UNCHANGED extVars

\* KickRead on a kick channel that takes every kick
KickRead_Queue ==
    /\ kickChan' = kickChan + 1
    /\ kickCalls' = IF kickCalls < MaxKickCalls THEN kickCalls + 1 ELSE kickCalls
    /\ UNCHANGED <<closed, stopClosed, outClosed, wg, isReading, sizeChan,
                   envVars, rawMode, readerVars, closerVars, consumerVars,
                   sleepVars, closeHist, gateHist, lastRead, refHist>>
    /\ UNCHANGED extVars

\* select { case t.kickChan <- struct{}{}: default: }
KickRead ==
    /\ kickChan' = IF kickChan < KickCap THEN kickChan + 1 ELSE kickChan
    /\ kickCalls' = IF kickCalls < MaxKickCalls THEN kickCalls + 1 ELSE kickCalls
    /\ UNCHANGED <<closed, stopClosed, outClosed, wg, isReading, sizeChan,
                   envVars, rawMode, readerVars, closerVars, consumerVars,
                   sleepVars, closeHist, gateHist, lastRead, refHist>>
    /\ UNCHANGED extVars

(***************************************************************************)
(* Terminal.Close (270-280), one step per statement.                       *)
(***************************************************************************)
\* Close with the guard reading t.closed but never setting it
CloseSwap_NoStore(c) ==
    /\ cpc[c] = "idle"
    /\ closeCalls < MaxCloseCalls
    /\ closeCalls' = closeCalls + 1
    /\ closed' = closed
    /\ cpc' = [cpc EXCEPT ![c] = "stdin"]
    /\ cret' = [cret EXCEPT ![c] = "none"]
    /\ cwon' = [cwon EXCEPT ![c] = (closed = 0)]
    /\ UNCHANGED <<stopClosed, kickChan, outClosed, wg, isReading, sizeChan,
                   envVars, rawMode, readerVars, consumerVars, sleepVars,
                   histVars>>
    /\ UNCHANGED extVars

\* atomic.SwapInt32(&t.closed, 1) != 0  =>  return nil
CloseSwap(c) ==
    /\ cpc[c] = "idle"
    /\ closeCalls < MaxCloseCalls
    /\ closeCalls' = closeCalls + 1
    /\ closed' = 1
    /\ IF closed # 0
       THEN /\ cpc' = [cpc EXCEPT ![c] = "idle"]
            /\ cret' = [cret EXCEPT ![c] = "nil"]
            /\ cwon' = [cwon EXCEPT ![c] = FALSE]
       ELSE /\ cpc' = [cpc EXCEPT ![c] = "stdin"]
            /\ cret' = [cret EXCEPT ![c] = "none"]
            /\ cwon' = [cwon EXCEPT ![c] = TRUE]
    /\ UNCHANGED <<stopClosed, kickChan, outClosed, wg, isReading, sizeChan,
                   envVars, rawMode, readerVars, consumerVars, sleepVars,
                   histVars>>
    /\ UNCHANGED extVars

\* if closer, ok := t.cfg.Stdin.(io.Closer); ok { closer.Close() }
CloseStdin(c) ==
    /\ cpc[c] = "stdin"
    /\ cpc' = [cpc EXCEPT ![c] = "stop"]
    /\ IF stdinIsCloser
       THEN stdinClosed' = TRUE /\ stdinCloses' = stdinCloses + 1
       ELSE UNCHANGED <<stdinClosed, stdinCloses>>
    /\ UNCHANGED <<termVars, vimMode, stdinIsCloser, rawMode, readerVars,
                   cret, cwon, closeCalls, consumerVars, sleepVars,
                   stopCloses, closeRestores, gateHist, kickCalls, lastRead,
                   refHist>>
    /\ UNCHANGED extVars

\* close(t.stopChan)
CloseStop(c) ==
    /\ cpc[c] = "stop"
    /\ cpc' = [cpc EXCEPT ![c] = "wait"]
    /\ stopClosed' = TRUE
    /\ stopCloses' = stopCloses + 1
    /\ UNCHANGED <<closed, kickChan, outClosed, wg, isReading, sizeChan,
                   envVars, rawMode, readerVars, cret, cwon, closeCalls,
                   consumerVars, sleepVars, stdinCloses, closeRestores,
                   gateHist, kickCalls, lastRead, refHist>>
    /\ UNCHANGED extVars

\* t.wg.Wait() returns once the counter is zero
CloseWait(c) ==
    /\ cpc[c] = "wait"
    /\ wg = 0
    /\ cpc' = [cpc EXCEPT ![c] = "exitRaw"]
    /\ UNCHANGED <<termVars, envVars, rawMode, readerVars, cret, cwon,
                   closeCalls, consumerVars, sleepVars, histVars>>
    /\ UNCHANGED extVars

\* return t.ExitRawMode(): FuncExitRaw may fail
CloseExitRaw(c) ==
    /\ cpc[c] = "exitRaw"
    /\ cpc' = [cpc EXCEPT ![c] = "idle"]
    /\ rawMode' = FALSE
    /\ closeRestores' = closeRestores + 1
    /\ \E e \in {"nil", "err"} : cret' = [cret EXCEPT ![c] = e]
    /\ UNCHANGED <<termVars, envVars, readerVars, cwon, closeCalls,
                   consumerVars, sleepVars, stdinCloses, stopCloses,
                   gateHist, kickCalls, lastRead, refHist>>
    /\ UNCHANGED extVars

(***************************************************************************)
(* Terminal.SleepToResume (43-54) with WaitForResume's detector.           *)
(***************************************************************************)
SleepSeq == {"exitRaw", "waitForResume", "suspendMe", "recv", "enterRaw",
             "release"}

\* SleepToResume setting the flag without testing it
SleepCAS_NoTest(s) ==
    /\ ~suspended
    /\ spc[s] = "idle"
    /\ sleepCalls < MaxSleepCalls
    /\ sleepCalls' = sleepCalls + 1
    /\ sleeping' = 1 /\ spc' = [spc EXCEPT ![s] = "exitRaw"]
    /\ UNCHANGED <<termVars, envVars, rawMode, readerVars, closerVars,
                   consumerVars, det, sleepSkips, suspended, histVars>>
    /\ UNCHANGED extVars

\* if !atomic.CompareAndSwapInt32(&t.sleeping, 0, 1) { return }
SleepCAS(s) ==
    /\ ~suspended
    /\ spc[s] = "idle"
    /\ sleepCalls < MaxSleepCalls
    /\ sleepCalls' = sleepCalls + 1
    /\ IF sleeping = 0
       THEN /\ sleeping' = 1 /\ spc' = [spc EXCEPT ![s] = "exitRaw"]
            /\ UNCHANGED sleepSkips
       ELSE /\ sleepSkips' = sleepSkips + 1
            /\ UNCHANGED <<sleeping, spc>>
    /\ UNCHANGED <<termVars, envVars, rawMode, readerVars, closerVars,
                   consumerVars, det, suspended, histVars>>
    /\ UNCHANGED extVars

\* t.ExitRawMode()
SleepExitRaw(s) ==
    /\ ~suspended
    /\ spc[s] = "exitRaw"
    /\ rawMode' = FALSE
    /\ spc' = [spc EXCEPT ![s] = "waitForResume"]
    /\ UNCHANGED <<termVars, envVars, readerVars, closerVars, consumerVars,
                   sleeping, det, sleepCalls, sleepSkips, suspended, histVars>>
    /\ UNCHANGED extVars

\* ch := WaitForResume(): the ticker goroutine is running when it returns
SleepWaitForResume(s) ==
    /\ ~suspended
    /\ spc[s] = "waitForResume"
    /\ det' = [det EXCEPT ![s] = "armed"]
    /\ spc' = [spc EXCEPT ![s] = "suspendMe"]
    /\ UNCHANGED <<termVars, envVars, rawMode, readerVars, closerVars,
                   consumerVars, sleeping, sleepCalls, sleepSkips, suspended, histVars>>
    /\ UNCHANGED extVars

\* SuspendMe(): the process stops itself
SleepSuspendMe(s) ==
    /\ ~suspended
    /\ spc[s] = "suspendMe"
    /\ suspended' = TRUE
    /\ spc' = [spc EXCEPT ![s] = "recv"]
    /\ UNCHANGED <<termVars, envVars, rawMode, readerVars, closerVars,
                   consumerVars, sleeping, det, sleepCalls, sleepSkips, histVars>>
    /\ UNCHANGED extVars

\* the process is continued from outside
Resume ==
    /\ suspended
    /\ suspended' = FALSE
    /\ UNCHANGED <<termVars, envVars, rawMode, readerVars, closerVars,
                   consumerVars, sleeping, spc, det, sleepCalls, sleepSkips, histVars>>
    /\ UNCHANGED extVars

\* the ticker saw two ticks more than 100ms apart and goes to send on ch
DetectorGap(s) ==
    /\ ~suspended
    /\ det[s] = "armed"
    /\ det' = [det EXCEPT ![s] = "sending"]
    /\ UNCHANGED <<termVars, envVars, rawMode, readerVars, closerVars,
                   consumerVars, sleeping, spc, sleepCalls, sleepSkips, suspended,
                   histVars>>
    /\ UNCHANGED extVars

\* <-ch, the rendezvous with the detector's ch <- struct{}{}
SleepRecv(s) ==
    /\ ~suspended
    /\ spc[s] = "recv"
    /\ det[s] = "sending"
    /\ det' = [det EXCEPT ![s] = "off"]
    /\ spc' = [spc EXCEPT ![s] = "enterRaw"]
    /\ UNCHANGED <<termVars, envVars, rawMode, readerVars, closerVars,
                   consumerVars, sleeping, sleepCalls, sleepSkips, suspended, histVars>>
    /\ UNCHANGED extVars

\* t.EnterRawMode()
SleepEnterRaw(s) ==
    /\ ~suspended
    /\ spc[s] = "enterRaw"
    /\ rawMode' = TRUE
    /\ spc' = [spc EXCEPT ![s] = "release"]
    /\ UNCHANGED <<termVars, envVars, readerVars, closerVars, consumerVars,
                   sleeping, det, sleepCalls, sleepSkips, suspended, histVars>>
    /\ UNCHANGED extVars

\* the deferred atomic.StoreInt32(&t.sleeping, 0)
SleepRelease(s) ==
    /\ ~suspended
    /\ spc[s] = "release"
    /\ sleeping' = 0
    /\ spc' = [spc EXCEPT ![s] = "idle"]
    /\ UNCHANGED <<termVars, envVars, rawMode, readerVars, closerVars,
                   consumerVars, det, sleepCalls, sleepSkips, suspended, histVars>>
    /\ UNCHANGED extVars

(***************************************************************************)
(* The completion engine (opCompleter).  A call is one step; the engine is *)
(* handled as a record of its fields so that the methods compose as they   *)
(* call each other.  A run-time panic (integer division by zero, index out *)
(* of range) ends the call where it is raised and is recorded in panicked. *)
(***************************************************************************)
\* candidateSource == nil
NilRunes == <<NoRune>>

\* Go's / and % on ints (truncated towards zero), for a divisor other than 0
Abs(a) == IF a < 0 THEN -a ELSE a
GoDiv(a, b) ==
    IF (a < 0) = (b < 0) THEN Abs(a) \div Abs(b) ELSE -(Abs(a) \div Abs(b))
GoMod(a, b) == a - b * GoDiv(a, b)

\* the engine's fields as a record
Engine ==
    [width |-> width, inCompleteMode |-> inCompleteMode,
     inSelectMode |-> inSelectMode, candidate |-> candidate,
     candidateComments |-> candidateComments,
     candidateSource |-> candidateSource, candidateOff |-> candidateOff,
     candidateChoise |-> candidateChoise,
     candidateColNum |-> candidateColNum, opBuf |-> opBuf,
     panicked |-> panicked]

SetEngine(e) ==
    /\ width' = e.width /\ inCompleteMode' = e.inCompleteMode
    /\ inSelectMode' = e.inSelectMode /\ candidate' = e.candidate
    /\ candidateComments' = e.candidateComments
    /\ candidateSource' = e.candidateSource
    /\ candidateOff' = e.candidateOff
    /\ candidateChoise' = e.candidateChoise
    /\ candidateColNum' = e.candidateColNum /\ opBuf' = e.opBuf
    /\ panicked' = e.panicked

\* a panic raised in e: nothing after it in the call is executed
Panic(e, what) == [e EXCEPT !.panicked = what]

\* o.op.buf.WriteRunes(s): s is inserted at the cursor
WriteRunes(e, s) == [e EXCEPT !.opBuf = e.opBuf \o s]

\* runes.WidthAll on the runes used here, which are one column wide each
WidthAll(s) == Len(s)

\* the widest candidate with its comment (210-217), for comments as long as
\* the candidates
RECURSIVE MaxWidth(_, _)
MaxWidth(cands, comments) ==
    IF cands = <<>> THEN 0
    ELSE LET w == WidthAll(Head(cands)) + WidthAll(Head(comments))
             rest == MaxWidth(Tail(cands), Tail(comments))
         IN  IF w > rest THEN w ELSE rest

\* opCompleter.CompleteRefresh (202-277): what it leaves in the engine
CompleteRefresh(e) ==
    IF e.panicked # "none" \/ ~e.inCompleteMode THEN e
    ELSE IF Len(e.candidateComments) < Len(e.candidate)
    THEN Panic(e, "index")                                 \* 213
    ELSE LET colWidth == MaxWidth(e.candidate, e.candidateComments)
                             + e.candidateOff + 1          \* 219
         IN  IF colWidth = 0 THEN Panic(e, "divide")       \* 225
             ELSE [e EXCEPT !.candidateColNum =
                                GoDiv(e.width - 1, colWidth)]

\* ExitCompleteSelectMode leaving the lists and the snapshot in place
ExitCompleteSelectMode_KeepList(e) ==
    IF e.panicked # "none" THEN e
    ELSE [e EXCEPT !.inSelectMode = FALSE, !.candidateChoise = -1,
                   !.candidateOff = -1]

\* opCompleter.ExitCompleteSelectMode (311-318)
ExitCompleteSelectMode(e) ==
    IF e.panicked # "none" THEN e
    ELSE [e EXCEPT !.inSelectMode = FALSE, !.candidate = <<>>,
                   !.candidateComments = <<>>, !.candidateChoise = -1,
                   !.candidateOff = -1, !.candidateSource = NilRunes]

\* ExitCompleteMode without line 321
ExitCompleteMode_KeepMode(e) ==
    IF e.panicked # "none" THEN e
    ELSE ExitCompleteSelectMode(e)

\* opCompleter.ExitCompleteMode (320-323)
ExitCompleteMode(e) ==
    IF e.panicked # "none" THEN e
    ELSE ExitCompleteSelectMode([e EXCEPT !.inCompleteMode = FALSE])

\* EnterCompleteSelectMode starting the choice at the first candidate
EnterCompleteSelectMode_AtFirst(e) ==
    IF e.panicked # "none" THEN e
    ELSE CompleteRefresh([e EXCEPT !.inSelectMode = TRUE,
                                   !.candidateChoise = 0])

\* opCompleter.EnterCompleteSelectMode (296-300)
EnterCompleteSelectMode(e) ==
    IF e.panicked # "none" THEN e
    ELSE CompleteRefresh([e EXCEPT !.inSelectMode = TRUE,
                                   !.candidateChoise = -1])

\* opCompleter.EnterCompleteMode (303-309)
EnterCompleteMode(e, offset, cands, comments) ==
    IF e.panicked # "none" THEN e
    ELSE CompleteRefresh([e EXCEPT !.inCompleteMode = TRUE,
                                   !.candidate = cands,
                                   !.candidateComments = comments,
                                   !.candidateOff = offset])

\* nextCandidate without the wrap of lines 75-78
nextCandidate_NoWrap(e, i) ==
    IF e.panicked # "none" THEN e
    ELSE [e EXCEPT !.candidateChoise = e.candidateChoise + i]

\* opCompleter.nextCandidate (73-79)
nextCandidate(e, i) ==
    IF e.panicked # "none" THEN e
    ELSE IF Len(e.candidate) = 0 THEN Panic(e, "divide")  \* 75
    ELSE LET c == GoMod(e.candidateChoise + i, Len(e.candidate))
         IN  [e EXCEPT !.candidateChoise =
                           IF c < 0 THEN Len(e.candidate) + c ELSE c]

\* opCompleter.doSelect (63-71)
doSelect(e) ==
    IF e.panicked # "none" THEN e
    ELSE IF Len(e.candidate) = 1
    THEN ExitCompleteMode(WriteRunes(e, e.candidate[1]))
    ELSE CompleteRefresh(nextCandidate(e, 1))

\* getMatrixSize without the partly filled last row (192-194)
getMatrixSize_Floor(e) ==
    GoDiv(Len(e.candidate), e.candidateColNum) * e.candidateColNum

\* opCompleter.getMatrixSize (190-196), for candidateColNum other than 0
getMatrixSize(e) ==
    LET line == GoDiv(Len(e.candidate), e.candidateColNum)
    IN  (IF GoMod(Len(e.candidate), e.candidateColNum) # 0
         THEN line + 1 ELSE line) * e.candidateColNum

\* opCompleter.HandleCompleteSelect (135-188)
HandleCompleteSelect(e, key) ==
    LET n == Len(e.candidate)
        col == e.candidateColNum
        ch == e.candidateChoise
        moved ==
          CASE key \in {CharEnter, CharCtrlJ} ->                   \* 138-141
                 IF ch < 0 \/ ch >= n THEN Panic(e, "index")
                 ELSE ExitCompleteMode(WriteRunes(e, e.candidate[ch + 1]))
            [] key = CharLineStart ->                              \* 142-144
                 IF col = 0 THEN Panic(e, "divide")
                 ELSE nextCandidate(e, -GoMod(ch, col))
            [] key = CharLineEnd ->                                \* 145-150
                 IF col = 0 THEN Panic(e, "divide")
                 ELSE LET c == ch + (col - GoMod(ch, col) - 1)
                      IN  [e EXCEPT !.candidateChoise =
                                        IF c >= n THEN n - 1 ELSE c]
            [] key = CharBackspace -> ExitCompleteSelectMode(e)    \* 151-153
            [] key \in {CharTab, CharForward} -> doSelect(e)       \* 154-155
            [] key \in {CharBell, CharInterrupt} ->                \* 156-158
                 ExitCompleteMode(e)
            [] key = CharNext ->                                   \* 159-167
                 IF col = 0 THEN Panic(e, "divide")
                 ELSE LET tmp == ch + col
                      IN  [e EXCEPT !.candidateChoise =
                             IF tmp >= getMatrixSize(e)
                             THEN tmp - getMatrixSize(e)
                             ELSE IF tmp >= n
                             THEN tmp + col - getMatrixSize(e)
                             ELSE tmp]
            [] key = CharBackward -> nextCandidate(e, -1)          \* 168-169
            [] key = CharPrev ->                                   \* 170-178
                 LET tmp == ch - col
                 IN  IF tmp >= 0 THEN [e EXCEPT !.candidateChoise = tmp]
                     ELSE IF col = 0 THEN Panic(e, "divide")
                     ELSE [e EXCEPT !.candidateChoise =
                             IF tmp + getMatrixSize(e) >= n
                             THEN tmp + getMatrixSize(e) - col
                             ELSE tmp + getMatrixSize(e)]
            [] OTHER -> ExitCompleteSelectMode(e)                  \* 179-181
        next == key \in {CharLineStart, CharLineEnd, CharTab, CharForward,
                         CharNext, CharBackward, CharPrev}
    IN  IF next THEN CompleteRefresh(moved) ELSE moved             \* 183-187

\* runes.Aggregate: the longest prefix shared by all the candidates
RECURSIVE Aggregate(_)
Aggregate(cands) ==
    IF \A i \in 1..Len(cands) : Len(cands[i]) > 0 /\ cands[i][1] = cands[1][1]
    THEN <<cands[1][1]>> \o Aggregate([i \in 1..Len(cands) |-> Tail(cands[i])])
    ELSE <<>>

\* the part of OnComplete after the provider has answered (102-124)
OnProvided(e, res) ==
    IF Len(res.newLines) = 0 THEN ExitCompleteMode(e)
    ELSE IF ~e.inCompleteMode /\ Len(res.newLines) = 1
    THEN ExitCompleteMode(WriteRunes(e, res.newLines[1]))
    ELSE IF ~e.inCompleteMode /\ Len(Aggregate(res.newLines)) > 0
    THEN ExitCompleteMode(WriteRunes(e, Aggregate(res.newLines)))
    ELSE EnterCompleteMode(e, res.offset, res.newLines, res.commentLines)

\* the trigger finds the buffer as it was snapshot (93)
SameQuery(e) ==
    e.inCompleteMode /\ e.candidateSource # NilRunes
        /\ e.opBuf = e.candidateSource

\* opCompleter.OnComplete (81-125); res is what the provider answers if asked
OnCompleteOn(e, res) ==
    IF e.width = 0 THEN e
    ELSE IF e.inSelectMode THEN doSelect(e)
    ELSE IF SameQuery(e) THEN doSelect(EnterCompleteSelectMode(e))
    ELSE OnProvided([ExitCompleteSelectMode(e) EXCEPT
                         !.candidateSource = e.opBuf], res)

\* which way OnComplete went
OnCompleteEv(e, res) ==
    CASE e.width = 0 -> "nowidth"
      [] e.width # 0 /\ e.inSelectMode -> "advance"
      [] e.width # 0 /\ ~e.inSelectMode /\ SameQuery(e) -> "select"
      [] OTHER -> "provider"

\* candidate lists a provider may answer with: none, one, two with a shared
\* first rune, two, two of which one is empty, three, seven; neighbours in a
\* list of n differ in their text
Singles(n) == [i \in 1..n |-> <<((i - 1) % 3) + 1>>]
Blank(n) == [i \in 1..n |-> <<>>]
CandidateLists ==
    {<<>>, Singles(1), <<<<1, 2>>, <<1, 3>>>>, Singles(2), <<<<>>, <<1>>>>,
     Singles(3), Singles(7)}
\* the answers of the provider: comments run parallel to the candidates
ProviderResults ==
    {[newLines |-> l, commentLines |-> Blank(Len(l)), offset |-> off] :
         l \in CandidateLists, off \in {0, 1}}
    \cup {[newLines |-> Singles(2), commentLines |-> <<<<8>>, <<>>>>,
           offset |-> 0]}

\* terminal widths: none, too narrow for one column, and wider ones
Widths == {0, 2, 7, 9}

\* the keys handed to HandleCompleteSelect
SelectKeys ==
    {CharEnter, CharCtrlJ, CharLineStart, CharLineEnd, CharBackspace, CharTab,
     CharForward, CharBell, CharInterrupt, CharNext, CharBackward, CharPrev,
     120}

\* everything but the completion engine
outsideEngine ==
    <<termVars, envVars, rawMode, readerVars, closerVars, consumerVars,
      sleepVars, histVars, offsetVars, cfgVars, matchVars>>

\* the trigger key: o.OnComplete()
OnComplete ==
    /\ panicked = "none"
    /\ \E res \in ProviderResults :
         LET after == OnCompleteOn(Engine, res)
         IN  /\ Len(after.opBuf) <= MaxBufLen
             /\ SetEngine(after)
             /\ compEv' = OnCompleteEv(Engine, res)
             /\ provided' = IF OnCompleteEv(Engine, res) = "provider"
                            THEN res.newLines ELSE <<>>
    /\ compKey' = CharTab
    /\ UNCHANGED outsideEngine

\* a key while selecting: the dispatcher hands keys to HandleCompleteSelect
\* only in select mode
SelectKey ==
    /\ panicked = "none"
    /\ inSelectMode
    /\ \E key \in SelectKeys :
         LET after == HandleCompleteSelect(Engine, key)
         IN  /\ Len(after.opBuf) <= MaxBufLen
             /\ SetEngine(after)
             /\ compKey' = key
    /\ compEv' = "key" /\ provided' = <<>>
    /\ UNCHANGED outsideEngine

\* opCompleter.OnWidthChange (198-200)
OnWidthChange ==
    /\ panicked = "none"
    /\ \E w \in Widths \ {width} : width' = w
    /\ compEv' = "width" /\ compKey' = 0 /\ provided' = <<>>
    /\ UNCHANGED <<outsideEngine, inCompleteMode, inSelectMode, candidate,
                   candidateComments, candidateSource, candidateOff,
                   candidateChoise, candidateColNum, opBuf, panicked>>

\* the line is edited outside select mode: a rune is typed or the line cleared
EditBuffer ==
    /\ panicked = "none"
    /\ ~inSelectMode
    /\ \/ Len(opBuf) < MaxBufLen /\ opBuf' = Append(opBuf, 1)
       \/ opBuf # <<>> /\ opBuf' = <<>>
    /\ compEv' = "edit" /\ compKey' = 0 /\ provided' = <<>>
    /\ UNCHANGED <<outsideEngine, width, inCompleteMode, inSelectMode,
                   candidate, candidateComments, candidateSource,
                   candidateOff, candidateChoise, candidateColNum, panicked>>

(***************************************************************************)
(* The prefix matcher (PrefixCompleter, doInternal).  Runes are code       *)
(* points, strings sequences of them; a node is a record.                  *)
(***************************************************************************)
\* PcItem (419-427): the name gets its trailing separator
PcItem(name, comment, pc) ==
    [Name |-> name \o <<RuneSpace>>, Comment |-> comment, Dynamic |-> FALSE,
     DynNames |-> <<>>, DynComments |-> <<>>, Children |-> pc]

\* PcItemDynamic (429-435) with a callback that answers names and comments
PcItemDynamic(names, comments, pc) ==
    [Name |-> <<>>, Comment |-> <<>>, Dynamic |-> TRUE,
     DynNames |-> names, DynComments |-> comments, Children |-> pc]

\* NewPrefixCompleter (415-417)
NewPrefixCompleter(pc) == PcItem(<<>>, <<>>, pc)

\* GetDynamicNames (396-405): each name gets its trailing separator
GetDynamicNames(p) ==
    [names |-> [i \in 1..Len(p.DynNames) |-> p.DynNames[i] \o <<RuneSpace>>],
     comments |-> p.DynComments]

\* runes.TrimSpaceLeft
RECURSIVE TrimSpaceLeft(_)
TrimSpaceLeft(s) ==
    IF s # <<>> /\ Head(s) = RuneSpace THEN TrimSpaceLeft(Tail(s)) ELSE s

\* runes.HasPrefix(r, prefix)
HasPrefix(s, prefix) ==
    Len(s) >= Len(prefix) /\ SubSeq(s, 1, Len(prefix)) = prefix

\* what doInternal has returned when no call was made
NoResult ==
    [newLine |-> <<>>, commentLine |-> <<>>, offset |-> 0, panicked |-> FALSE]

\* the names of child number k with their comments, in order (450-459)
ChildNames(p, k) ==
    LET child == p.Children[k]
    IN  IF child.Dynamic
        THEN LET d == GetDynamicNames(child)
             IN  [i \in 1..Len(d.names) |->
                     [child |-> k, name |-> d.names[i],
                      comment |-> IF i <= Len(d.comments)
                                  THEN d.comments[i] ELSE <<>>,
                      hasComment |-> i <= Len(d.comments)]]
        ELSE <<[child |-> k, name |-> child.Name, comment |-> child.Comment,
                hasComment |-> TRUE]>>

\* all the names of the children of p in the order the loops visit them
RECURSIVE ResolvedFrom(_, _)
ResolvedFrom(p, k) ==
    IF k > Len(p.Children) THEN <<>>
    ELSE ChildNames(p, k) \o ResolvedFrom(p, k + 1)

\* the body of the inner loop without line 476
MatchName_NoComment(acc, line, item) ==
    IF acc.panicked THEN acc
    ELSE IF Len(line) >= Len(item.name)
    THEN IF HasPrefix(line, item.name)
         THEN [acc EXCEPT
                  !.newLine = Append(@, IF Len(line) = Len(item.name)
                                        THEN <<RuneSpace>> ELSE item.name),
                  !.offset = Len(item.name),
                  !.lineCompleter = item.child, !.goNext = TRUE]
         ELSE acc
    ELSE IF HasPrefix(item.name, line)
         THEN [acc EXCEPT
                  !.newLine = Append(@, SubSeq(item.name, Len(line) + 1,
                                               Len(item.name))),
                  !.offset = Len(line), !.lineCompleter = item.child]
         ELSE acc

\* the body of the inner loop without line 471
MatchName_NoGoNext(acc, line, item) ==
    IF acc.panicked THEN acc
    ELSE IF Len(line) >= Len(item.name)
    THEN IF HasPrefix(line, item.name)
         THEN [acc EXCEPT
                  !.newLine = Append(@, IF Len(line) = Len(item.name)
                                        THEN <<RuneSpace>> ELSE item.name),
                  !.offset = Len(item.name),
                  !.lineCompleter = item.child]
         ELSE acc
    ELSE IF HasPrefix(item.name, line)
         THEN [acc EXCEPT
                  !.newLine = Append(@, SubSeq(item.name, Len(line) + 1,
                                               Len(item.name))),
                  !.commentLine = Append(@, item.comment),
                  !.offset = Len(line), !.lineCompleter = item.child]
         ELSE acc

\* the body of the inner loop for one name (462-480); commentNames[i] beyond
\* the comments the callback returned is an index out of range
MatchName(acc, line, item) ==
    IF acc.panicked THEN acc
    ELSE IF Len(line) >= Len(item.name)
    THEN IF HasPrefix(line, item.name)
         THEN [acc EXCEPT
                  !.newLine = Append(@, IF Len(line) = Len(item.name)
                                        THEN <<RuneSpace>> ELSE item.name),
                  !.offset = Len(item.name),
                  !.lineCompleter = item.child, !.goNext = TRUE]
         ELSE acc
    ELSE IF HasPrefix(item.name, line)
         THEN IF ~item.hasComment
              THEN [acc EXCEPT
                       !.newLine = Append(@, SubSeq(item.name, Len(line) + 1,
                                                    Len(item.name))),
                       !.panicked = TRUE]
              ELSE [acc EXCEPT
                       !.newLine = Append(@, SubSeq(item.name, Len(line) + 1,
                                                    Len(item.name))),
                       !.commentLine = Append(@, item.comment),
                       !.offset = Len(line), !.lineCompleter = item.child]
         ELSE acc

\* the two loops over the children and their names (449-482)
RECURSIVE MatchAll(_, _, _)
MatchAll(acc, line, items) ==
    IF items = <<>> THEN acc
    ELSE MatchAll(MatchName(acc, line, Head(items)), line, Tail(items))

\* the first index from offset on (counted from 0) of a rune of line that is
\* no space, or -1 (489-496)
FirstNonSpace(line, offset) ==
    LET I == {i \in offset..(Len(line) - 1) : line[i + 1] # RuneSpace}
    IN  IF I = {} THEN -1 ELSE CHOOSE i \in I : \A j \in I : i <= j

\* doInternal (445-502), for pos within the line
RECURSIVE doInternal(_, _, _)
doInternal(p, line0, pos) ==
    LET line == TrimSpaceLeft(SubSeq(line0, 1, pos))
        acc == MatchAll([newLine |-> <<>>, commentLine |-> <<>>,
                         offset |-> 0, lineCompleter |-> 0,
                         goNext |-> FALSE, panicked |-> FALSE],
                        line, ResolvedFrom(p, 1))
        here == [newLine |-> acc.newLine, commentLine |-> acc.commentLine,
                 offset |-> acc.offset, panicked |-> acc.panicked]
        i == FirstNonSpace(line, acc.offset)
    IN  IF acc.panicked \/ Len(acc.newLine) # 1 THEN here
        ELSE IF i >= 0
        THEN doInternal(p.Children[acc.lineCompleter],
                        SubSeq(line, i + 1, Len(line)), Len(line) - i)
        ELSE IF acc.goNext
        THEN doInternal(p.Children[acc.lineCompleter], <<>>, 0)
        ELSE here

\* The trees the matcher is run on.  Static names are single tokens, as the
\* trailing separator PcItem adds is the token boundary; a callback answers
\* any names, one of them a name of two words and one the name of a static
\* child.  Letters are their code points (a 97, f 102, g 103, h 104, l 108, n 110, o 111, r 114,
\* s 115, t 116, u 117, w 119).
Trees ==
    LET status == <<115, 116, 97, 116, 117, 115>>
        start == <<115, 116, 97, 114, 116>>
        show == <<115, 104, 111, 119>>
        st == <<115, 116>>
        on == <<111, 110>>
        off == <<111, 102, 102>>
        all == <<97, 108, 108>>
        go == <<103, 111>>
        cStatus == <<49>>
        cShow == <<50>>
        cOther == <<51>>
    IN  { NewPrefixCompleter(<<PcItem(status, cStatus,
                                      <<PcItem(on, cOther, <<>>),
                                        PcItem(off, <<>>, <<>>)>>),
                               PcItem(show, cShow,
                                      <<PcItem(all, cOther, <<>>)>>)>>),
          NewPrefixCompleter(<<PcItem(status, cStatus, <<>>),
                               PcItem(start, cShow, <<>>)>>),
          NewPrefixCompleter(<<PcItem(st, cOther,
                                      <<PcItem(status, cStatus, <<>>)>>),
                               PcItem(status, cStatus,
                                      <<PcItem(on, <<>>, <<>>)>>)>>),
          NewPrefixCompleter(<<PcItem(show, cShow, <<>>),
                               PcItemDynamic(<<status, go>>,
                                             <<cStatus, cOther>>,
                                             <<PcItem(on, <<>>, <<>>)>>)>>),
          NewPrefixCompleter(<<PcItem(status, cStatus, <<>>),
                               PcItemDynamic(<<go, st>>, <<cOther>>,
                                             <<>>)>>),
          NewPrefixCompleter(<<PcItem(st, cOther, <<>>),
                               PcItemDynamic(<<st \o <<RuneSpace>> \o on>>,
                                             <<cShow>>, <<>>)>>),
          NewPrefixCompleter(<<PcItem(status, cStatus,
                                      <<PcItem(on, <<>>, <<>>)>>),
                               PcItemDynamic(<<status>>, <<cOther>>,
                                             <<>>)>>),
          NewPrefixCompleter(<<>>) }

\* The lines typed; the cursor is anywhere in them.
Lines ==
    { <<115, 116, 97, 116, 117, 115, 32, 111, 110>>,
      <<32, 115, 116, 97, 116>>,
      <<115, 104, 111, 119, 32, 32, 97, 108>>,
      <<115, 116, 32, 115, 116, 97>>,
      <<115, 116, 97, 114, 116, 32>>,
      <<103, 111, 32, 111>>,
      <<115, 116, 32, 111>>,
      <<120>> }

(***************************************************************************)
(* The session after NewTerminal returns (26-40): the channels are made,   *)
(* go t.ioloop() has been issued, the goroutine has not run yet.           *)
(***************************************************************************)
InitSession ==
    /\ closed = 0 /\ stopClosed = FALSE /\ kickChan = 0 /\ outClosed = FALSE
    /\ wg = 0 /\ isReading = 0 /\ sleeping = 0 /\ sizeChan = <<>>
    /\ vimMode \in BOOLEAN /\ stdinIsCloser \in BOOLEAN
    /\ stdinClosed = FALSE /\ rawMode = TRUE /\ suspended = FALSE
    /\ rpc = "spawn" /\ r = 0 /\ attr = <<>>
    /\ isEscape = FALSE /\ isEscapeEx = FALSE /\ isEscapeSS3 = FALSE
    /\ expectNextChar = FALSE
    /\ cpc = [c \in Closers |-> "idle"]
    /\ cret = [c \in Closers |-> "none"]
    /\ cwon = [c \in Closers |-> FALSE]
    /\ closeCalls = 0
    /\ upc = "idle" /\ got = NoRune /\ gotOk = FALSE
    /\ spc = [s \in Sleepers |-> "idle"]
    /\ det = [s \in Sleepers |-> "off"]
    /\ sleepCalls = 0 /\ sleepSkips = 0
    /\ stdinCloses = 0 /\ stopCloses = 0 /\ closeRestores = 0
    /\ lastEv = "start" /\ gated = FALSE /\ kickCalls = 0 /\ lastRead = "none"
    /\ refState = "N" /\ refAttr = "empty" /\ refExpect = NoRune
    /\ refDone = "none" /\ decoded = NoRune /\ seqHandoffs = 0
    /\ refPair = "e"
    /\ offsetWaiters = 0 /\ offsetCalls = 0 /\ offsetGot = <<>>
    /\ cfgLock = "free" /\ setpc = "idle" /\ getpc = "idle" /\ wpc = "idle"
    /\ width = 0 /\ inCompleteMode = FALSE /\ inSelectMode = FALSE
    /\ candidate = <<>> /\ candidateComments = <<>>
    /\ candidateSource = NilRunes /\ candidateOff = 0
    /\ candidateChoise = 0 /\ candidateColNum = 0
    /\ opBuf = <<>> /\ panicked = "none" /\ compEv = "new" /\ compKey = 0
    /\ provided = <<>>

\* no call of the prefix matcher has been made
Init ==
    /\ InitSession
    /\ pcTree = PcItem(<<>>, <<>>, <<>>) /\ pcLine = <<>> /\ pcPos = 0
    /\ pcDone = FALSE /\ pcResult = NoResult

(***************************************************************************)
(* Terminal.GetOffset (79-84): a goroutine is started that hands the next  *)
(* element of t.sizeChan to the callback; the query ESC [ 6 n is written.  *)
(***************************************************************************)
GetOffset ==
    /\ offsetCalls < MaxOffsetCalls
    /\ offsetCalls' = offsetCalls + 1
    /\ offsetWaiters' = offsetWaiters + 1
    /\ UNCHANGED <<termVars, envVars, rawMode, readerVars, closerVars,
                   consumerVars, sleepVars, histVars, offsetGot, cfgVars,
                   compVars, matchVars>>

\* f(<-t.sizeChan) in one of the goroutines (81)
GetOffsetRecv ==
    /\ offsetWaiters > 0
    /\ sizeChan # <<>>
    /\ sizeChan' = Tail(sizeChan)
    /\ offsetGot' = Append(offsetGot, Head(sizeChan))
    /\ offsetWaiters' = offsetWaiters - 1
    /\ UNCHANGED <<closed, stopClosed, kickChan, outClosed, wg, isReading,
                   envVars, rawMode, readerVars, closerVars, consumerVars,
                   sleepVars, histVars, offsetCalls, cfgVars, compVars,
                   matchVars>>

(***************************************************************************)
(* The configuration (282-304, 56-66).  SetConfig swaps t.cfg under t.m;   *)
(* GetConfig copies it under t.m; Write reads t.cfg.Stdout with no lock.   *)
(***************************************************************************)
\* everything but the configuration, its mutex and their callers
sessionVars ==
    <<termVars, stdinIsCloser, stdinClosed, rawMode, readerVars, closerVars,
      consumerVars, sleepVars, histVars, offsetVars, compVars, matchVars>>

\* t.m.Lock() in SetConfig (300)
SetConfigLock ==
    /\ setpc = "idle" /\ cfgLock = "free"
    /\ setpc' = "locked" /\ cfgLock' = "set"
    /\ UNCHANGED <<sessionVars, vimMode, getpc, wpc>>

\* t.cfg = c (301): the new configuration has its own VimMode
SetConfigStore ==
    /\ setpc = "locked"
    /\ vimMode' \in BOOLEAN
    /\ setpc' = "stored"
    /\ UNCHANGED <<sessionVars, cfgLock, getpc, wpc>>

\* t.m.Unlock() (302)
SetConfigUnlock ==
    /\ setpc = "stored"
    /\ setpc' = "idle" /\ cfgLock' = "free"
    /\ UNCHANGED <<sessionVars, vimMode, getpc, wpc>>

\* t.m.Lock(); cfg := *t.cfg in GetConfig (283-284)
GetConfigLock ==
    /\ getpc = "idle" /\ cfgLock = "free"
    /\ getpc' = "locked" /\ cfgLock' = "get"
    /\ UNCHANGED <<sessionVars, vimMode, setpc, wpc>>

\* t.m.Unlock() in GetConfig (285)
GetConfigUnlock ==
    /\ getpc = "locked"
    /\ getpc' = "idle" /\ cfgLock' = "free"
    /\ UNCHANGED <<sessionVars, vimMode, setpc, wpc>>

\* Terminal.Write: t.cfg.Stdout is read with no lock (65), then written to
WriteStart ==
    /\ wpc = "idle"
    /\ wpc' = "writing"
    /\ UNCHANGED <<sessionVars, vimMode, cfgLock, setpc, getpc>>

WriteEnd ==
    /\ wpc = "writing"
    /\ wpc' = "idle"
    /\ UNCHANGED <<sessionVars, vimMode, cfgLock, setpc, getpc>>

Configurer ==
    \/ SetConfigLock \/ SetConfigStore \/ SetConfigUnlock
    \/ GetConfigLock \/ GetConfigUnlock
    \/ WriteStart \/ WriteEnd

ReaderRun(in) ==
    \/ IoloopStart \/ IoloopTop \/ IoloopGateKick
    \/ IoloopRead(in) \/ IoloopReadEscKey(in)
    \/ IoloopSendEsc \/ IoloopDeliver
    \/ IoloopDeferDone \/ IoloopDeferClose

ReaderStop == IoloopGateStop \/ IoloopSendEscStop \/ IoloopDeliverStop

Closer(c) ==
    \/ CloseSwap(c) \/ CloseStdin(c) \/ CloseStop(c) \/ CloseWait(c)
    \/ CloseExitRaw(c)

Caller == ReadRuneCall \/ ReadRuneEOF \/ KickRead

\* the session's life cycle: the reader, its callers and the callers of Close
Next ==
    \/ ReaderRun(LifeRunes) \/ ReaderStop
    \/ \E c \in Closers : Closer(c)
    \/ Caller

Spec == Init /\ [][Next]_vars

\* The scheduling the liveness of shutdown rests on: the goroutines of the
\* reader and of Close keep running, an input read in flight returns (with
\* whatever result), and a select whose stop case is ready again and again
\* takes it at some point (Go chooses among ready cases at random).  Nothing
\* is assumed of the callers of ReadRune and KickRead.
FairSpec ==
    /\ Spec
    /\ WF_vars(ReaderRun(LifeRunes))
    /\ SF_vars(ReaderStop)
    /\ \A c \in Closers : WF_vars(Closer(c))

\* decoding: the reader over the whole input alphabet and its callers, on a
\* session that nobody closes
InitDecode == Init /\ ~stdinIsCloser

NextDecode == ReaderRun(Runes) \/ Caller

SpecDecode == InitDecode /\ [][NextDecode]_vars

\* cursor reports: the reader over the runes of reports, its callers and the
\* callers of GetOffset, on a session that nobody closes
NextReport == ReaderRun(ReportRunes) \/ Caller \/ GetOffset \/ GetOffsetRecv

SpecReport == InitDecode /\ [][NextReport]_vars

\* the configuration swapped while the session runs and one caller closes it
CfgRunes == {CharEsc, CharEscapeEx, Rune3}

NextConfig ==
    \/ ReaderRun(CfgRunes) \/ ReaderStop
    \/ Closer("c1")
    \/ Caller
    \/ Configurer

SpecConfig == Init /\ [][NextConfig]_vars

\* the completion engine under triggers, keys, width changes and edits
NextComplete == OnComplete \/ SelectKey \/ OnWidthChange \/ EditBuffer

InitComplete == Init /\ ~vimMode /\ ~stdinIsCloser

SpecComplete == InitComplete /\ [][NextComplete]_vars

(***************************************************************************)
(* One call of the prefix matcher on a tree, a line and a cursor position. *)
(***************************************************************************)
InitPrefix ==
    /\ InitSession
    /\ ~vimMode /\ ~stdinIsCloser
    /\ pcTree \in Trees
    /\ pcLine \in Lines
    /\ pcPos \in 0..Len(pcLine)
    /\ pcDone = FALSE /\ pcResult = NoResult

\* PrefixCompleter.Do (437-439)
Do ==
    /\ ~pcDone
    /\ pcDone' = TRUE
    /\ pcResult' = doInternal(pcTree, pcLine, pcPos)
    /\ UNCHANGED <<pcTree, pcLine, pcPos>>
    /\ UNCHANGED <<termVars, envVars, rawMode, readerVars, closerVars,
                   consumerVars, sleepVars, histVars, offsetVars, cfgVars,
                   compVars>>

NextPrefix == Do

SpecPrefix == InitPrefix /\ [][NextPrefix]_vars

Sleeper(s) ==
    \/ SleepCAS(s) \/ SleepExitRaw(s) \/ SleepWaitForResume(s)
    \/ SleepSuspendMe(s) \/ DetectorGap(s) \/ SleepRecv(s)
    \/ SleepEnterRaw(s) \/ SleepRelease(s)

\* suspend and resume
NextSleep == Resume \/ \E s \in Sleepers : Sleeper(s)

SpecSleep == Init /\ [][NextSleep]_vars

(***************************************************************************)
(* Properties.                                                             *)
(***************************************************************************)

\* C1: however often Close is called, sequentially or concurrently, the
\* input handle is closed at most once, stopChan is closed exactly once
\* (never twice), Close's ExitRawMode runs at most once, and every call but
\* the one that won the swap returns nil.
C1_CloseOnce ==
    /\ stdinCloses <= 1 /\ stopCloses <= 1 /\ closeRestores <= 1
    /\ Cardinality({c \in Closers : cwon[c]}) <= 1
    /\ \A c \in Closers :
         /\ cwon[c] /\ cpc[c] \in {"wait", "exitRaw", "idle"} => stopCloses = 1
         /\ ~cwon[c] => cpc[c] = "idle" /\ cret[c] \in {"none", "nil"}
C1_Witness ==
    /\ closeCalls >= 3 /\ closeRestores = 1 /\ stdinCloses = 1
    /\ \A c \in Closers : cpc[c] = "idle"
    /\ \E c \in Closers : ~cwon[c] /\ cret[c] = "nil"

\* C2: Close runs ExitRawMode only after the reader loop has exited.
C2_RestoreAfterReaderExit ==
    closeRestores > 0 => rpc \in {"deferDone", "deferClose", "done"}

\* C3: after Close is called the reader ends, outchan is closed and Close
\* has returned, and a ReadRune that completes once outchan is closed
\* returns 0 with ok false.
C3_ShutdownCompletes ==
    /\ (closed = 1) ~> (rpc = "done" /\ outClosed /\ closeRestores = 1)
    /\ [][(outClosed /\ upc = "recv" /\ upc' = "idle") =>
            (got' = 0 /\ ~gotOk')]_vars

\* C4: once stopChan is closed, no ReadRune receives a key from the reader.
C4_NoDeliveryAfterStop ==
    [][stopClosed => ~(upc = "recv" /\ upc' = "idle" /\ gotOk')]_vars

\* C5: the reader is at the gate, and reads only after consuming a kick,
\* exactly when nothing was read yet or the last key delivered was Enter,
\* Ctrl-J, Interrupt or Delete; after any other key, a swallowed sequence, a
\* cursor report or a retried read it reads without consuming a kick.
C5_GateExactly ==
    /\ rpc = "gate" => lastEv \in {"start", "terminal"}
    /\ rpc = "read" => (gated <=> lastEv \in {"start", "terminal"})
    /\ rpc = "top" => (~expectNextChar <=> lastEv \in {"start", "terminal"})
C5_Witness ==
    /\ rpc = "gate" /\ lastEv = "terminal" /\ kickChan = 0
    /\ got = CharDelete /\ refDone = "supported" /\ refExpect = CharDelete

\* C6: KickRead can always be taken; at most one kick is pending; however
\* many kicks were issued since the reader last passed the gate, exactly one
\* is pending, and passing the gate leaves none.
C6_OneKickPending ==
    /\ ENABLED KickRead
    /\ kickChan \in 0..1
    /\ (kickChan = 1) <=> (kickCalls > 0)
C6_Witness == kickCalls >= 2 /\ kickChan = 1 /\ rpc = "deliver"

\* C7: a read failing with the interrupted-call error is retried with the
\* decoder state unchanged, no kick consumed and no key delivered; a read
\* failing with any other error ends the loop.
ReadPcs == {"read", "readEscKeyEx", "readEscKeySS3"}
DecoderState ==
    <<isEscape, isEscapeEx, isEscapeSS3,
      IF rpc \in {"readEscKeyEx", "readEscKeySS3"} THEN rpc ELSE "loop", attr>>
C7_ReadErrors ==
    [][(rpc \in ReadPcs /\ readerVars' # readerVars) =>
         /\ lastRead' = "eintr" =>
              /\ DecoderState' = DecoderState
              /\ rpc' \notin {"gate", "deliver", "sendEsc", "deferDone"}
              /\ rpc' = "top" => expectNextChar'
              /\ kickChan' = kickChan /\ upc' = upc /\ got' = got
         /\ lastRead' = "other" => rpc' = "deferDone"]_vars

\* C8: at most one SleepToResume call is between the guard and its release;
\* while it is suspending raw mode is off, raw mode is entered again only
\* after the detector's signal was received, and the guard is free whenever
\* no call is in progress.
C8_SleepGuard ==
    /\ Cardinality({s \in Sleepers : spc[s] \in SleepSeq}) <= 1
    /\ (sleeping = 1) <=> (\E s \in Sleepers : spc[s] \in SleepSeq)
    /\ suspended => ~rawMode
    /\ \A s \in Sleepers :
         /\ spc[s] \in {"waitForResume", "suspendMe", "recv"} => ~rawMode
         /\ spc[s] \in {"enterRaw", "release"} => det[s] = "off" /\ ~suspended
         /\ spc[s] \in {"idle", "exitRaw"} => det[s] = "off"
C8_Witness ==
    /\ sleepSkips >= 1 /\ sleepCalls - sleepSkips >= 2
    /\ suspended /\ ~rawMode

\* C9 (VimMode off): when the input has supplied a complete supported
\* sequence, the loop hands off its key, that key alone, and is in Normal.
C9_SupportedSequence ==
    (~vimMode /\ refDone = "supported") =>
        /\ decoded = refExpect
        /\ seqHandoffs = 1
        /\ ~isEscape /\ ~isEscapeEx /\ ~isEscapeSS3
        /\ rpc \notin {"readEscKeyEx", "readEscKeySS3"}

\* C10 (VimMode off): ESC is never received, and no key is handed off for a
\* rune that is part of an escape prefix or of an unsupported sequence.
C10_NoPhantomKey ==
    ~vimMode =>
        /\ got # CharEsc
        /\ refDone \in {"none", "unsupported", "report"} => decoded = NoRune
        /\ refDone \in {"unsupported", "meta"} =>
               ~isEscape /\ ~isEscapeEx /\ ~isEscapeSS3


\* C11: the read that ends a CSI sequence with type letter R hands off no key
\* and leaves the reader at the top of the loop expecting the next rune with
\* no gate; the attribute is appended to the size-report slot exactly when it
\* is two integers separated by ';' and the slot is free, and otherwise the
\* slot is unchanged.
C11_ReportOutOfBand ==
    [][(refState = "C" /\ refState' = "N" /\ refDone' = "report") =>
          /\ decoded' = NoRune
          /\ rpc' = "top" /\ expectNextChar'
          /\ ~isEscape' /\ ~isEscapeEx' /\ ~isEscapeSS3'
          /\ sizeChan' = IF refPair = "dsd" /\ Len(sizeChan) < SizeCap
                         THEN Append(sizeChan, attr)
                         ELSE sizeChan]_vars

\* a step in which t.cfg is read by a goroutine that does not hold t.m: the
\* switch of the reader on ESC (t.cfg.VimMode, 237), Close (t.cfg.Stdin, 274,
\* and t.cfg.FuncExitRaw through ExitRawMode, 279) and Write (t.cfg.Stdout)
UnlockedConfigRead ==
    \/ /\ rpc = "read" /\ lastRead' = "nil"
       /\ rpc' = "sendEsc" \/ (rpc' = "top" /\ isEscape')
    \/ \E c \in Closers :
          cpc[c] \in {"stdin", "exitRaw"} /\ cpc'[c] # cpc[c]
    \/ wpc = "idle" /\ wpc' = "writing"

\* C12: while SetConfig is inside its critical section (between t.m.Lock()
\* and t.m.Unlock(), where it stores t.cfg) no other goroutine reads the
\* configuration: every read of t.cfg then waits for the mutex.
C12_ConfigReadsLocked ==
    [][cfgLock = "set" => ~UnlockedConfigRead]_vars

\* a step that is a call of OnComplete
TriggerStep == compEv' \in {"nowidth", "advance", "select", "provider"}

\* C13: whenever a call has returned, select mode implies complete mode and
\* the chosen index is an index of the candidate list; and a call made with
\* a column count of at least 1 does return (it raises no panic).
C13_SelectingInRange ==
    /\ [](panicked = "none" =>
            (inSelectMode =>
                 /\ inCompleteMode
                 /\ candidateChoise >= 0
                 /\ candidateChoise < Len(candidate)))
    /\ [][candidateColNum >= 1 => panicked' = "none"]_vars

\* select mode after Prev wrapped from the first row to the last full column
C13_Witness ==
    /\ inSelectMode /\ panicked = "none" /\ candidateColNum = 3
    /\ compEv = "key" /\ compKey = CharPrev
    /\ Len(candidate) = 7 /\ candidateChoise = 4

\* C14 as stated: a trigger in CompleteMode (not selecting) with two or more
\* candidates and the buffer equal to the snapshot enters select mode at
\* index 0 without asking the provider, and a trigger in select mode moves
\* the chosen index on by one, from the last candidate to index 0.
C14_SameQuerySelects ==
    [][TriggerStep =>
          /\ (inCompleteMode /\ ~inSelectMode /\ Len(candidate) >= 2
                  /\ opBuf = candidateSource) =>
                 /\ inSelectMode' /\ inCompleteMode'
                 /\ candidateChoise' = 0
                 /\ compEv' = "select" /\ candidate' = candidate
          /\ (inSelectMode /\ Len(candidate) >= 2) =>
                 /\ inSelectMode' /\ inCompleteMode'
                 /\ candidateChoise' =
                        (candidateChoise + 1) % Len(candidate)
                 /\ candidate' = candidate]_vars

\* C14 amended: the same, for a trigger made while the terminal width is
\* not 0 (with a width of 0 OnComplete returns at once).
C14_SameQuerySelectsWithWidth ==
    [][(TriggerStep /\ width # 0) =>
          /\ (inCompleteMode /\ ~inSelectMode /\ Len(candidate) >= 2
                  /\ opBuf = candidateSource) =>
                 /\ inSelectMode' /\ inCompleteMode'
                 /\ candidateChoise' = 0
                 /\ compEv' = "select" /\ candidate' = candidate
          /\ (inSelectMode /\ Len(candidate) >= 2) =>
                 /\ inSelectMode' /\ inCompleteMode'
                 /\ candidateChoise' =
                        (candidateChoise + 1) % Len(candidate)
                 /\ candidate' = candidate]_vars

\* a trigger in select mode has wrapped from the last candidate to the first
C14_Witness ==
    /\ inSelectMode /\ compEv = "advance" /\ candidateChoise = 0
    /\ Len(candidate) = 3 /\ width # 0

\* C15: a trigger that asks the provider and gets exactly one candidate
\* writes that candidate's text at the cursor and leaves the engine outside
\* completion, whatever mode it was in.
C15_SingletonCommitted ==
    [][(compEv' = "provider" /\ Len(provided') = 1) =>
          /\ opBuf' = opBuf \o provided'[1]
          /\ ~inCompleteMode' /\ ~inSelectMode']_vars

\* a call that has returned and left the engine outside completion
ExitStep ==
    /\ compEv' \in {"provider", "advance", "select", "key"}
    /\ panicked' = "none"
    /\ ~inCompleteMode'

\* the engine holds nothing of a former completion
EngineReset ==
    /\ ~inCompleteMode /\ ~inSelectMode
    /\ candidate = <<>> /\ candidateComments = <<>>
    /\ candidateChoise = -1 /\ candidateOff = -1
    /\ candidateSource = NilRunes

\* C16 as stated: every exit from completion leaves both flags false, the
\* lists empty, the chosen index and the offset at -1 and the snapshot
\* cleared, and the trigger that follows asks the provider.
C16_ExitResets ==
    /\ [][ExitStep => EngineReset']_vars
    /\ [][(TriggerStep /\ EngineReset) => compEv' = "provider"]_vars

\* C16 amended: the same, the trigger that follows asking the provider when
\* the terminal width is not 0.
C16_ExitResetsWithWidth ==
    /\ [][ExitStep => EngineReset']_vars
    /\ [][(TriggerStep /\ EngineReset /\ width # 0) =>
              compEv' = "provider"]_vars

\* Bell has aborted a selection among three candidates
C16_Witness ==
    /\ compEv = "key" /\ compKey = CharBell /\ EngineReset
    /\ panicked = "none" /\ width # 0

\* the index one row down ("next") or up from index ch in the column of ch,
\* going round from the last row that has this column to the first
RefRowMove(n, col, ch, down) ==
    LET c == ch % col
        rows == {k \in 0..n : k * col + c < n}
        row == ch \div col
        later == {k \in rows : k > row}
        earlier == {k \in rows : k < row}
        Min(S) == CHOOSE k \in S : \A j \in S : k <= j
        Max(S) == CHOOSE k \in S : \A j \in S : k >= j
        to == IF down
              THEN (IF later = {} THEN Min(rows) ELSE Min(later))
              ELSE (IF earlier = {} THEN Max(rows) ELSE Max(earlier))
    IN  to * col + c

\* C17: in select mode with one column or more, Next and Prev leave the
\* chosen index in range and in its column, one row down or up with
\* wraparound past the empty cells of the last row; with 7 candidates in 3
\* columns Next takes index 5 to index 2.
C17_RowMoves ==
    [][(compEv' = "key" /\ compKey' \in {CharNext, CharPrev}
           /\ inSelectMode /\ candidateColNum >= 1) =>
          /\ panicked' = "none"
          /\ candidateChoise' >= 0 /\ candidateChoise' < Len(candidate)
          /\ candidateChoise' % candidateColNum
                 = candidateChoise % candidateColNum
          /\ candidateChoise' =
                 RefRowMove(Len(candidate), candidateColNum,
                            candidateChoise, compKey' = CharNext)
          /\ (Len(candidate) = 7 /\ candidateColNum = 3
                  /\ candidateChoise = 5 /\ compKey' = CharNext) =>
                 candidateChoise' = 2]_vars

\* Next has wrapped to index 2 among 7 candidates in 3 columns
C17_Witness ==
    /\ compEv = "key" /\ compKey = CharNext /\ inSelectMode
    /\ Len(candidate) = 7 /\ candidateColNum = 3 /\ width = 7
    /\ candidateChoise = 2 /\ panicked = "none"

\* C18: with a column count of 0 in select mode, LineStart, LineEnd, Next and
\* Prev return without a panic and leave the chosen index in range.
C18_ZeroColumnsTolerated ==
    [][(compEv' = "key"
           /\ compKey' \in {CharLineStart, CharLineEnd, CharNext, CharPrev}
           /\ inSelectMode /\ candidateColNum = 0) =>
          /\ panicked' = "none"
          /\ candidateChoise' >= 0 /\ candidateChoise' < Len(candidate')]_vars

\* C19: in select mode Enter and Ctrl-J insert the text of the candidate at
\* the chosen index, and nothing else, at the cursor and leave both modes.
C19_EnterCommitsChosen ==
    [][(compEv' = "key" /\ compKey' \in {CharEnter, CharCtrlJ}
           /\ inSelectMode) =>
          /\ panicked' = "none"
          /\ opBuf' = opBuf \o candidate[candidateChoise + 1]
          /\ ~inSelectMode' /\ ~inCompleteMode']_vars

\* Enter has committed the second of the candidates on a line that held text
C19_Witness ==
    /\ compEv = "key" /\ compKey = CharEnter
    /\ opBuf = <<1, 2>> /\ ~inSelectMode /\ ~inCompleteMode

\* the input the matcher works on: the line before the cursor without its
\* leading spaces
pcTrimmed == TrimSpaceLeft(SubSeq(pcLine, 1, pcPos))

\* the names the root's children resolve to
RootNames == ResolvedFrom(pcTree, 1)

\* the names of which the trimmed input is a proper prefix
ProperPrefixOf ==
    {i \in 1..Len(RootNames) :
        /\ Len(pcTrimmed) < Len(RootNames[i].name)
        /\ HasPrefix(RootNames[i].name, pcTrimmed)}

DistinctNames ==
    \A i, j \in 1..Len(RootNames) :
        RootNames[i].name = RootNames[j].name => i = j

\* C20: for a tree whose children have distinct names, when the trimmed input
\* before the cursor is non-empty and a proper prefix of exactly one child's
\* name, the matcher returns exactly one candidate, the remainder of that
\* name, with that child's comment and offset the trimmed input's length,
\* without descending; with root children status and show and input "sta"
\* the candidate is the remainder of status after "sta" with offset 3.
C20_UniquePrefixCompleted ==
    /\ (pcDone /\ DistinctNames /\ pcTrimmed # <<>>
          /\ Cardinality(ProperPrefixOf) = 1)
       => LET i == CHOOSE i \in ProperPrefixOf : TRUE
              name == RootNames[i].name
          IN  pcResult =
                 [newLine |-> <<SubSeq(name, Len(pcTrimmed) + 1, Len(name))>>,
                  commentLine |-> <<RootNames[i].comment>>,
                  offset |-> Len(pcTrimmed), panicked |-> FALSE]
    /\ (pcDone /\ Len(pcTree.Children) = 2
          /\ pcTree.Children[1].Name = <<115, 116, 97, 116, 117, 115, 32>>
          /\ pcTree.Children[2].Name = <<115, 104, 111, 119, 32>>
          /\ pcTrimmed = <<115, 116, 97>>)
       => /\ pcResult.newLine = <<(<<116, 117, 115, 32>>)>>
          /\ pcResult.offset = 3

\* "sta" typed after a leading space, the cursor before the end of the line,
\* on the tree of status (which has children) and show
C20_Witness ==
    /\ pcDone /\ DistinctNames /\ Cardinality(ProperPrefixOf) = 1
    /\ pcTrimmed = <<115, 116, 97>> /\ pcPos = 4 /\ pcPos < Len(pcLine)
    /\ Len(pcTree.Children) = 2
    /\ pcTree.Children[2].Name = <<115, 104, 111, 119, 32>>
    /\ pcTree.Children[1].Children # <<>>
    /\ pcResult.newLine = <<(<<116, 117, 115, 32>>)>>
    /\ pcResult.commentLine = <<(<<49>>)>>
    /\ pcResult.offset = 3

\* the names that are the whole trimmed input
FullMatchOf == {i \in 1..Len(RootNames) : RootNames[i].name = pcTrimmed}

\* the names that match the trimmed input in either branch of the loop
MatchOf ==
    {i \in 1..Len(RootNames) :
        \/ HasPrefix(pcTrimmed, RootNames[i].name)
        \/ HasPrefix(RootNames[i].name, pcTrimmed)}

\* the whole names and the comments of the static children of node p
WholeNames(p) == [k \in 1..Len(p.Children) |-> p.Children[k].Name]

WholeComments(p) == [k \in 1..Len(p.Children) |-> p.Children[k].Comment]

AllStatic(p) == \A k \in 1..Len(p.Children) : ~p.Children[k].Dynamic

\* C21: when the input is exactly one child's full name with its trailing
\* separator and no other child matches, the result is that of matching the
\* empty line against that child: one candidate per grandchild carrying its
\* whole name with offset 0, none when the child has no children; the
\* single-space continuation candidate is not returned.
C21_FullNameDescends ==
    (pcDone /\ Cardinality(FullMatchOf) = 1 /\ MatchOf = FullMatchOf)
    => LET i == CHOOSE i \in FullMatchOf : TRUE
           child == pcTree.Children[RootNames[i].child]
       IN  /\ pcResult = doInternal(child, <<>>, 0)
           /\ AllStatic(child)
              => pcResult = [newLine |-> WholeNames(child),
                             commentLine |-> WholeComments(child),
                             offset |-> 0, panicked |-> FALSE]
           /\ child.Children = <<>> => pcResult.newLine = <<>>
           /\ pcResult.newLine # <<(<<RuneSpace>>)>>

\* "status " before the cursor on a tree where status has two children
C21_Witness ==
    /\ pcDone /\ Cardinality(FullMatchOf) = 1 /\ MatchOf = FullMatchOf
    /\ pcTrimmed = <<115, 116, 97, 116, 117, 115, 32>>
    /\ Len(pcResult.newLine) = 2
    /\ pcResult.newLine[1] = <<111, 110, 32>>
    /\ pcResult.offset = 0


\* C22: for every tree and input the candidate list and the comment list the
\* matcher returns have the same length, so that comment i belongs to
\* candidate i.
C22_ListsAlign ==
    (pcDone /\ ~pcResult.panicked)
    => Len(pcResult.newLine) = Len(pcResult.commentLine)


\* C20 with the case of a full match left out: for a tree whose children
\* have distinct names, when the trimmed input before the cursor is
\* non-empty, a proper prefix of exactly one child's name and no child's
\* name is a prefix of it, the matcher returns exactly one candidate, the
\* remainder of that name, with that child's comment and offset the trimmed
\* input's length, without descending; with root children status and show
\* and input "sta" the candidate is the remainder of status after "sta" with
\* offset 3.
C20_UniquePrefixCompletedAlone ==
    /\ (pcDone /\ DistinctNames /\ pcTrimmed # <<>>
          /\ Cardinality(ProperPrefixOf) = 1 /\ MatchOf = ProperPrefixOf)
       => LET i == CHOOSE i \in ProperPrefixOf : TRUE
              name == RootNames[i].name
          IN  pcResult =
                 [newLine |-> <<SubSeq(name, Len(pcTrimmed) + 1, Len(name))>>,
                  commentLine |-> <<RootNames[i].comment>>,
                  offset |-> Len(pcTrimmed), panicked |-> FALSE]
    /\ (pcDone /\ Len(pcTree.Children) = 2
          /\ pcTree.Children[1].Name = <<115, 116, 97, 116, 117, 115, 32>>
          /\ pcTree.Children[2].Name = <<115, 104, 111, 119, 32>>
          /\ pcTrimmed = <<115, 116, 97>>)
       => /\ pcResult.newLine = <<(<<116, 117, 115, 32>>)>>
          /\ pcResult.offset = 3


\* the column width CompleteRefresh computes from the engine's fields (219)
colWidth == MaxWidth(candidate, candidateComments) + candidateOff + 1

\* C23: whenever the engine is in CompleteMode when a call returns, the
\* candidate list is non-empty and the common offset is at least 0, so the
\* column width CompleteRefresh computes is at least 1 and a refresh does not
\* divide by zero; this includes the states reached when Backspace or an
\* unrelated key leaves select mode while completion stays active.
C23_ActiveHasCandidates ==
    (panicked = "none" /\ inCompleteMode)
    => /\ candidate # <<>>
       /\ candidateOff >= 0
       /\ Len(candidateComments) = Len(candidate) => colWidth >= 1
       /\ CompleteRefresh(Engine).panicked # "divide"

=============================================================================
